---- MODULE Spec2Model ----
(***************************************************************************)
(* Model of the web connector of planA_scrapper_danswer.py: the crawl loop *)
(* WebConnector.load_from_state with its helpers, and the HTML-to-text     *)
(* normalizer format_document_soup.                                        *)
(*                                                                         *)
(* A URL is a sequence of tokens: <<"https:", netloc, segment, ...>>.      *)
(* "a in b" on URL strings is modelled as "a is a contiguous run of the    *)
(* tokens of b"; a URL whose last token is "pdf" ends in ".pdf".  A string *)
(* of page text is a sequence of one-character strings.                    *)
(***************************************************************************)
EXTENDS Integers, Sequences, FiniteSets, TLC

VARIABLES
    \* ---- WebConnector fields and load_from_state locals
    web_connector_type, \* the mode given to __init__
    recursive,          \* self.recursive
    batch_size,         \* self.batch_size
    to_visit,           \* self.to_visit_list, aliased by the local to_visit
    seeded,             \* the URLs of self.to_visit_list as __init__ left it
    base_url,           \* local base_url = to_visit[0]
    visited_links,      \* local visited_links
    doc_batch,          \* local doc_batch
    restart_playwright, \* local restart_playwright
    pc,                 \* where the generator stands
    \* ---- the render session (playwright, context)
    started,            \* number of start_playwright() calls; the current session's id
    stop_log,           \* ids of the sessions playwright.stop() was called on, in order
    \* ---- what an observer of the crawl sees
    emitted,            \* the batches yielded so far, in order
    assembled,          \* every Document appended to doc_batch, in order
    dispatch_log,       \* every URL used as the requested URL of a fetch, in order
    stamps,             \* stamps[i]: the push time of to_visit[i]
    clock,              \* number of pushes so far
    fail_log,           \* every URL whose fetch raised, in order
    born_fails,         \* number of failures when the current session was constructed
    last_load,          \* the most recent page load: its session and the failures before it
    last_pdf,           \* the most recent PDF dispatch: its URL and what the bytes were
    last_page,          \* the most recent HTML page assembled: the links owed to removed subtrees
    last_discard,       \* the final URL of the most recent page discarded after a redirect
    born_emitted,       \* number of batches yielded when the current session was constructed
    \* ---- format_document_soup
    document,           \* document.descendants, in pre-order
    pos,                \* index of the next descendant of the walk
    text,               \* local text
    list_element_start, \* local list_element_start
    verbatim_output,    \* local verbatim_output
    in_table,           \* local in_table
    last_added_newline, \* local last_added_newline
    fpc,                \* where format_document_soup stands
    result,             \* its return value
    raw_nodes,          \* indices of the texts added with verbatim_output > 0
    \* ---- WebConnector.parse_metadata
    metadata,           \* the metadata argument: its <<key, value>> entries in order
    mpos,               \* index of the next entry of the loop
    metadata_lines,     \* local metadata_lines
    mpc,                \* where parse_metadata stands
    meta_result         \* its return value

crawl_vars == <<web_connector_type, seeded, last_page, recursive, batch_size, to_visit, base_url,
                visited_links, doc_batch, restart_playwright, pc, started, stop_log,
                emitted, assembled, dispatch_log, stamps, clock, fail_log, born_fails, born_emitted,
                last_load, last_pdf, last_discard>>

fmt_vars == <<document, pos, text, list_element_start, verbatim_output, in_table, raw_nodes,
              last_added_newline, fpc, result>>

meta_vars == <<metadata, mpos, metadata_lines, mpc, meta_result>>

vars == <<crawl_vars, fmt_vars, meta_vars>>

\* ------------------------------------------------------------------ bounds

\* Longest sitemap / upload list.
MaxSeed == 2
\* Largest configured batch size.
MaxBatch == 2
\* Most rows of a table, most cells of a row.
MaxRows == 2
MaxCols == 2
\* Most items of a list.
MaxItems == 2
\* Most entries of a metadata mapping.
MaxEntries == 2
MaxAnchors == 2

\* ------------------------------------------------------------ sequences

Last(s) == s[Len(s)]

Front(s) == SubSeq(s, 1, Len(s) - 1)

Range(s) == {s[i] : i \in 1..Len(s)}

SeqsUpTo(S, n) == UNION {[1..k -> S] : k \in 0..n}

NoDuplicates(s) == \A i, j \in 1..Len(s) : s[i] = s[j] => i = j

\* All orders in which the elements of the finite set S can be iterated.
Orders(S) == {s \in [1..Cardinality(S) -> S] : Range(s) = S}

RECURSIVE Flatten(_)
Flatten(ss) == IF ss = <<>> THEN <<>> ELSE Head(ss) \o Flatten(Tail(ss))

\* ------------------------------------------------------------------ URLs

\* "a in b" for strings, on tokens.
Contains(b, a) ==
    \E i \in 0..(Len(b) - Len(a)) : SubSeq(b, i + 1, i + Len(a)) = a

HasScheme(url) == Len(url) >= 1 /\ url[1] = "https:"

Netloc(url) == IF HasScheme(url) /\ Len(url) >= 2 THEN url[2] ELSE ""

ensure_valid_url(url) == IF HasScheme(url) THEN url ELSE <<"https:">> \o url

is_valid_url(url) == HasScheme(url) /\ Netloc(url) # ""

IsPdf(url) == url # <<>> /\ Last(url) = "pdf"

\* The site.
UrlBase == <<"https:", "h", "docs">>
UrlA    == <<"https:", "h", "docs", "a">>
UrlPdf  == <<"https:", "h", "docs", "f", "pdf">>
UrlBlog == <<"https:", "h", "blog">>
UrlX    == <<"https:", "x", "https:", "h", "docs">>
UrlXc   == <<"https:", "x", "https:", "h", "docs", "c">>

Urls == {UrlBase, UrlA, UrlPdf, UrlBlog, UrlX, UrlXc}

\* ------------------------------------------------------- get_internal_links

\* The href values of the anchors a page may hold: absolute, root-relative
\* (no scheme), with a "#..." fragment (a token "#s"), or empty.
HrefA     == UrlA
HrefPdf   == <<"docs", "f", "pdf">>
HrefBlog  == UrlBlog
HrefX     == UrlX
HrefXc    == UrlXc
HrefFrag  == <<"https:", "h", "docs", "#s">>
HrefEmpty == <<>>

Hrefs == {HrefA, HrefPdf, HrefBlog, HrefX, HrefXc, HrefFrag, HrefEmpty}

\* The anchors of one page: at most MaxAnchors different href values.
AnchorSets == {a \in SUBSET Hrefs : Cardinality(a) <= MaxAnchors}

\* The href values that anchors inside a <nav>, <footer> or sidebar may hold.
NavHrefs == {HrefA, HrefBlog}

HasPound(href) == \E i \in 1..Len(href) : href[i] = "#s"

\* href.split("#")[0]
SplitPound(href) ==
    LET i == CHOOSE k \in 1..Len(href) :
                 href[k] = "#s" /\ \A j \in 1..(k - 1) : href[j] # "#s"
    IN  SubSeq(href, 1, i - 1)

\* urljoin(url, href) for an empty or root-relative href.
urljoin(url, href) ==
    IF href = <<>> THEN url ELSE <<url[1], url[2]>> \o href

\* The href of one anchor as line 272 tests it.
ResolveHref(url, href, should_ignore_pound) ==
    LET h1 == IF should_ignore_pound /\ HasPound(href) THEN SplitPound(href) ELSE href
    IN  IF ~is_valid_url(h1) THEN urljoin(url, h1) ELSE h1

\* Line 272 without the network-location test.
InScopeAnyHost(base, url, href) == Contains(href, base)

InScope(base, url, href) == Netloc(href) = Netloc(url) /\ Contains(href, base)

get_internal_links(base, url, anchors) ==
    {h \in {ResolveHref(url, a, TRUE) : a \in {x \in anchors : x # <<>>}} :
        InScope(base, url, h)}

\* ------------------------------------------------------------ read_pdf_file

NoPass == "None"

\* What the bytes behind a ".pdf" URL can be.
PlainPdf   == [parses |-> TRUE,  is_encrypted |-> FALSE, pages_ok |-> TRUE]
EncPdf     == [parses |-> TRUE,  is_encrypted |-> TRUE,  pages_ok |-> TRUE]
DamagedPdf == [parses |-> TRUE,  is_encrypted |-> FALSE, pages_ok |-> FALSE]
NotPdf     == [parses |-> FALSE, is_encrypted |-> FALSE, pages_ok |-> FALSE]

PdfFiles == {PlainPdf, EncPdf, DamagedPdf, NotPdf}

\* pdf_reader.decrypt(pdf_pass) != 0
Decrypts(file, pdf_pass) == pdf_pass = "pw"

\* PdfReader(file): raises on bytes that are no PDF.
PdfReaderRaises(file) == ~file.parses

\* page.extract_text() over pdf_reader.pages: raises on damaged pages and on
\* an encrypted file that was not decrypted.
ExtractRaises(file, decrypted) ==
    ~file.pages_ok \/ (file.is_encrypted /\ ~decrypted)

\* [raised, text]: the call raises, or returns text.
read_pdf_file(file, pdf_pass) ==
    IF PdfReaderRaises(file) THEN [raised |-> TRUE, text |-> ""]
    ELSE IF file.is_encrypted /\ pdf_pass # NoPass /\ ~Decrypts(file, pdf_pass)
         THEN [raised |-> FALSE, text |-> ""]
    ELSE IF ExtractRaises(file, file.is_encrypted /\ pdf_pass # NoPass)
         THEN [raised |-> FALSE, text |-> ""]
    ELSE [raised |-> FALSE, text |-> "pdf text"]

\* --------------------------------------------------------------- Document

Document(id, txt, source, meta) ==
    [id |-> id, text |-> txt, source |-> source, metadata |-> meta]

Ids(docs) == [i \in 1..Len(docs) |-> docs[i].id]

\* ---------------------------------------------------- WebConnector.__init__

Modes == {"recursive", "single", "sitemap", "upload"}

\* base_url arguments of the recursive and single modes.
BaseInputs == {<<"h", "docs">>, UrlBase, UrlPdf}

\* <loc> entries a sitemap may list; lines an upload file may hold.
SitemapLocs == {UrlA, UrlPdf, UrlBlog}
UploadLines == {<<"h", "docs", "a">>, UrlPdf, UrlBlog}

extract_urls_from_sitemap(locs) == locs

read_urls_file(lines) == [i \in 1..Len(lines) |-> ensure_valid_url(lines[i])]

\* self.to_visit_list after construction in mode type with input inp.
SeedFrontier(type, inp) ==
    CASE type = "recursive" -> <<ensure_valid_url(inp)>>
      [] type = "single"    -> <<ensure_valid_url(inp)>>
      [] type = "sitemap"   -> extract_urls_from_sitemap(inp)
      [] type = "upload"    -> read_urls_file(inp)

SeedInputs(type) ==
    CASE type = "recursive" -> BaseInputs
      [] type = "single"    -> BaseInputs
      [] type = "sitemap"   -> SeqsUpTo(SitemapLocs, MaxSeed)
      [] type = "upload"    -> SeqsUpTo(UploadLines, MaxSeed)

NoLoad == [session |-> 0, born_fails |-> 0, fails |-> 0,
           live |-> TRUE, born_batches |-> 0, batches |-> 0]
NoPdf  == [url |-> <<>>, file |-> NotPdf, outcome |-> "none"]
NoPage == [n |-> 0, nav_only |-> {}]

FmtIdle ==
    /\ document = <<>>
    /\ pos = 1
    /\ text = <<>>
    /\ list_element_start = FALSE
    /\ verbatim_output = 0
    /\ in_table = FALSE
    /\ last_added_newline = FALSE
    /\ fpc = "idle"
    /\ result = <<>>
    /\ raw_nodes = {}

\* parse_metadata returned nothing (yet).
NoResult == "none"

MetaIdle ==
    /\ metadata = <<>>
    /\ mpos = 1
    /\ metadata_lines = <<>>
    /\ mpc = "idle"
    /\ meta_result = NoResult

Init ==
    /\ web_connector_type \in Modes
    /\ recursive = (web_connector_type = "recursive")
    /\ batch_size \in 1..MaxBatch
    /\ \E inp \in SeedInputs(web_connector_type) :
           to_visit = SeedFrontier(web_connector_type, inp)
    /\ seeded = Range(to_visit)
    /\ stamps = [i \in 1..Len(to_visit) |-> i]
    /\ clock = Len(to_visit)
    /\ base_url = <<>>
    /\ visited_links = {}
    /\ doc_batch = <<>>
    /\ restart_playwright = FALSE
    /\ pc = "start"
    /\ started = 0
    /\ stop_log = <<>>
    /\ emitted = <<>>
    /\ assembled = <<>>
    /\ dispatch_log = <<>>
    /\ fail_log = <<>>
    /\ born_fails = 0
    /\ last_load = NoLoad
    /\ last_pdf = NoPdf
    /\ last_discard = <<>>
    /\ last_page = NoPage
    /\ born_emitted = 0
    /\ FmtIdle
    /\ MetaIdle

\* --------------------------------------------- WebConnector.load_from_state

\* list.pop(0): the oldest entry.
PopFront(s) == 1

\* list.pop(): the index that is removed and returned.
PopAt(s) == Len(s)

RemoveAt(s, i) == SubSeq(s, 1, i - 1) \o SubSeq(s, i + 1, Len(s))

\* list.append(x) for each x of xs in turn.
AppendAll(s, xs) == s \o xs

current_url == to_visit[PopAt(to_visit)]

\* Line 384 left out.
MarkVisitedForgotten(visited, url) == visited

\* Line 419 left out.
MarkRedirectForgotten(visited, final_page) == visited

\* visited_links.add(url)
MarkVisited(visited, url) == visited \cup {url}

\* Line 419: visited_links.add(current_url) for the page a redirect led to.
MarkRedirect(visited, final_page) == visited \cup {final_page}

\* The session the try block runs on: a new one when a restart is pending.
SessionInTry == IF restart_playwright THEN started + 1 ELSE started

BornInTry == IF restart_playwright THEN Len(fail_log) ELSE born_fails
BornEmittedInTry == IF restart_playwright THEN Len(emitted) ELSE born_emitted

\* Line 450 left out.
RestartNotRequested == FALSE

\* restart_playwright as the except handler leaves it.
RestartAfterException == TRUE

FlushKeepsSession == FALSE

\* restart_playwright as a full-batch flush leaves it.
RestartAfterFlush == TRUE

\* len(doc_batch) >= self.batch_size
BatchFull(batch) == Len(batch) >= batch_size

\* The buffer reset before the yield instead of after it.
YieldedAfterReset(batch) == <<>>

\* The documents yielded when batch is flushed.
Yielded(batch) == batch

\* Lines 373-379: the generator's first steps.
Start ==
    /\ pc = "start"
    /\ visited_links' = {}
    /\ doc_batch' = <<>>
    /\ IF to_visit = <<>>
       THEN \* to_visit[0] raises IndexError
            /\ pc' = "raised"
            /\ UNCHANGED <<base_url, started, born_fails, born_emitted, restart_playwright>>
       ELSE /\ base_url' = to_visit[1]
            /\ started' = started + 1
            /\ born_fails' = Len(fail_log)
            /\ born_emitted' = Len(emitted)
            /\ restart_playwright' = FALSE
            /\ pc' = "loop"
    /\ UNCHANGED <<web_connector_type, seeded, last_page, last_discard, recursive, batch_size, to_visit, stop_log,
                   emitted, assembled, dispatch_log, stamps, clock, fail_log,
                   last_load, last_pdf, fmt_vars, meta_vars>>

\* Lines 381-383: pop a URL that was visited already.
SkipVisited ==
    /\ pc = "loop"
    /\ to_visit # <<>>
    /\ current_url \in visited_links
    /\ to_visit' = RemoveAt(to_visit, PopAt(to_visit))
    /\ stamps' = RemoveAt(stamps, PopAt(to_visit))
    /\ UNCHANGED <<web_connector_type, seeded, last_page, last_discard, recursive, batch_size, base_url, visited_links,
                   doc_batch, restart_playwright, pc, started, stop_log, emitted,
                   assembled, dispatch_log, clock, fail_log, born_fails, born_emitted, last_load,
                   last_pdf, fmt_vars, meta_vars>>

\* Lines 381-391: pop an unvisited URL, mark it, enter the try block.
Dispatch ==
    /\ pc = "loop"
    /\ to_visit # <<>>
    /\ current_url \notin visited_links
    /\ dispatch_log' = Append(dispatch_log, current_url)
    /\ started' = SessionInTry
    /\ born_fails' = BornInTry
    /\ born_emitted' = BornEmittedInTry

\* Lines 447-451: the except handler.  playwright.stop() is recorded in
\* stop_log and returns, here and at lines 454 and 460.
ExceptHandler ==
    /\ stop_log' = Append(stop_log, SessionInTry)
    /\ restart_playwright' = RestartAfterException
    /\ fail_log' = Append(fail_log, current_url)
    /\ pc' = "loop"
    /\ UNCHANGED <<doc_batch, emitted, assembled>>

\* Lines 393-408: a PDF URL whose bytes are fetched and read.
PdfOk ==
    /\ Dispatch
    /\ IsPdf(current_url)
    /\ \E file \in PdfFiles :
         LET r == read_pdf_file(file, NoPass)
             d == Document(current_url, r.text, current_url, "{}")
         IN  /\ ~r.raised
             /\ doc_batch' = Append(doc_batch, d)
             /\ assembled' = Append(assembled, d)
             /\ last_pdf' = [url |-> current_url, file |-> file, outcome |-> "document"]
    /\ visited_links' = MarkVisited(visited_links, current_url)
    /\ to_visit' = RemoveAt(to_visit, PopAt(to_visit))
    /\ stamps' = RemoveAt(stamps, PopAt(to_visit))
    /\ restart_playwright' = FALSE
    /\ UNCHANGED <<web_connector_type, seeded, last_page, last_discard, recursive, batch_size, base_url, pc, stop_log,
                   emitted, clock, fail_log, last_load, fmt_vars, meta_vars>>

\* Lines 393-398, 447-451: requests.get or read_pdf_file raises.
PdfFails ==
    /\ Dispatch
    /\ IsPdf(current_url)
    /\ \/ last_pdf' = [url |-> current_url, file |-> NotPdf, outcome |-> "no response"]
       \/ \E file \in PdfFiles :
            /\ read_pdf_file(file, NoPass).raised
            /\ last_pdf' = [url |-> current_url, file |-> file, outcome |-> "dropped"]
    /\ ExceptHandler
    /\ visited_links' = MarkVisited(visited_links, current_url)
    /\ to_visit' = RemoveAt(to_visit, PopAt(to_visit))
    /\ stamps' = RemoveAt(stamps, PopAt(to_visit))
    /\ UNCHANGED <<web_connector_type, seeded, last_page, last_discard, recursive, batch_size, base_url, clock,
                   last_load, fmt_vars, meta_vars>>

\* page.goto(current_url) on the session of the try block.
PageLoad ==
    last_load' = [session |-> SessionInTry, born_fails |-> BornInTry, fails |-> Len(fail_log),
                  live |-> SessionInTry \notin Range(stop_log),
                  born_batches |-> BornEmittedInTry, batches |-> Len(emitted)]

\* Lines 410-421, 447-451: page.goto raises, or the page is reached (at
\* final_page, which is marked visited) and reading it raises.
PageFails ==
    /\ Dispatch
    /\ ~IsPdf(current_url)
    /\ PageLoad
    /\ \/ visited_links' = MarkVisited(visited_links, current_url)
       \/ \E final_page \in Urls :
            LET seen == MarkVisited(visited_links, current_url)
            IN  /\ final_page = current_url \/ final_page \notin seen
                /\ visited_links' = IF final_page = current_url THEN seen
                                    ELSE MarkRedirect(seen, final_page)
    /\ ExceptHandler
    /\ to_visit' = RemoveAt(to_visit, PopAt(to_visit))
    /\ stamps' = RemoveAt(stamps, PopAt(to_visit))
    /\ UNCHANGED <<web_connector_type, seeded, last_page, last_discard, recursive, batch_size, base_url, clock,
                   last_pdf, fmt_vars, meta_vars>>

\* Lines 410-418: the page redirects to a URL that was visited already.
RedirectDiscard ==
    /\ Dispatch
    /\ ~IsPdf(current_url)
    /\ PageLoad
    /\ \E final_page \in Urls :
         /\ final_page # current_url
         /\ final_page \in MarkVisited(visited_links, current_url)
         /\ last_discard' = final_page
    /\ visited_links' = MarkVisited(visited_links, current_url)
    /\ to_visit' = RemoveAt(to_visit, PopAt(to_visit))
    /\ stamps' = RemoveAt(stamps, PopAt(to_visit))
    /\ restart_playwright' = FALSE
    /\ UNCHANGED <<web_connector_type, seeded, last_page, recursive, batch_size, base_url, doc_batch, pc,
                   stop_log, emitted, assembled, clock, fail_log, last_pdf, fmt_vars, meta_vars>>

\* The anchors left in the soup by web_html_cleanup (line 430).
anchors_after_cleanup(anchors, removed) == anchors \ removed

\* Lines 421-425: the anchors of the soup that get_internal_links is given,
\* the page as parsed; removed are those inside the subtrees that
\* web_html_cleanup extracts afterwards.
soup_anchors(anchors, removed) == anchors

\* Lines 424-425 without the test of self.recursive.
LinksInEveryMode(final_page, anchors) ==
    get_internal_links(base_url, final_page, anchors)

\* Lines 424-425: the links of the page, looked for in recursive mode only.
internal_links(final_page, anchors) ==
    IF recursive THEN get_internal_links(base_url, final_page, anchors) ELSE {}

\* Lines 410-446, 453-457: the page is read, its links pushed, its Document
\* appended, and a full batch yielded.
PageOk ==
    /\ Dispatch
    /\ ~IsPdf(current_url)
    /\ PageLoad
    /\ \E final_page \in Urls, anchors \in AnchorSets :
       \E removed \in SUBSET (anchors \cap NavHrefs) :
         LET seen0 == MarkVisited(visited_links, current_url)
             seen  == IF final_page = current_url THEN seen0
                      ELSE MarkRedirect(seen0, final_page)
             found == internal_links(final_page, soup_anchors(anchors, removed))
             kept  == get_internal_links(base_url, final_page, anchors \ removed)
             lost  == get_internal_links(base_url, final_page, removed) \ kept
             d     == Document(final_page, "page text", final_page, "title")
             batch == Append(doc_batch, d)
         IN  /\ final_page = current_url \/ final_page \notin seen0
             /\ visited_links' = seen
             /\ \E order \in Orders({l \in found : l \notin seen}) :
                  /\ to_visit' = AppendAll(RemoveAt(to_visit, PopAt(to_visit)), order)
                  /\ stamps' = RemoveAt(stamps, PopAt(to_visit))
                                  \o [i \in 1..Len(order) |-> clock + i]
                  /\ clock' = clock + Len(order)
             /\ assembled' = Append(assembled, d)
             /\ last_page' = [n |-> Len(assembled) + 1,
                              nav_only |-> {l \in lost : l \notin seen}]
             /\ doc_batch' = batch
             /\ IF BatchFull(batch)
                THEN /\ stop_log' = Append(stop_log, SessionInTry)
                     /\ restart_playwright' = RestartAfterFlush
                     /\ emitted' = Append(emitted, Yielded(batch))
                     /\ pc' = "yielded"
                ELSE /\ restart_playwright' = FALSE
                     /\ UNCHANGED <<stop_log, emitted, pc>>
    /\ UNCHANGED <<web_connector_type, seeded, last_discard, recursive, batch_size, base_url, fail_log,
                   last_pdf, fmt_vars, meta_vars>>

\* Line 457: the consumer asks for the next batch.
Resume ==
    /\ pc = "yielded"
    /\ doc_batch' = <<>>
    /\ pc' = "loop"
    /\ UNCHANGED <<web_connector_type, seeded, last_page, last_discard, recursive, batch_size, to_visit, base_url,
                   visited_links, restart_playwright, started, stop_log, emitted,
                   assembled, dispatch_log, stamps, clock, fail_log, born_fails, born_emitted,
                   last_load, last_pdf, fmt_vars, meta_vars>>

\* Lines 459-461: the frontier is empty.
Finish ==
    /\ pc = "loop"
    /\ to_visit = <<>>
    /\ IF doc_batch # <<>>
       THEN /\ stop_log' = Append(stop_log, started)
            /\ emitted' = Append(emitted, Yielded(doc_batch))
            /\ pc' = "final_yield"
       ELSE /\ pc' = "done"
            /\ UNCHANGED <<stop_log, emitted>>
    /\ UNCHANGED <<web_connector_type, seeded, last_page, last_discard, recursive, batch_size, to_visit, base_url,
                   visited_links, doc_batch, restart_playwright, started, assembled,
                   dispatch_log, stamps, clock, fail_log, born_fails, born_emitted, last_load,
                   last_pdf, fmt_vars, meta_vars>>

\* After line 461: the consumer asks again and the generator returns.
Return ==
    /\ pc = "final_yield"
    /\ pc' = "done"
    /\ UNCHANGED <<web_connector_type, seeded, last_page, last_discard, recursive, batch_size, to_visit, base_url,
                   visited_links, doc_batch, restart_playwright, started, stop_log,
                   emitted, assembled, dispatch_log, stamps, clock, fail_log, born_fails, born_emitted,
                   last_load, last_pdf, fmt_vars, meta_vars>>

Next ==
    \/ Start
    \/ SkipVisited
    \/ PdfOk
    \/ PdfFails
    \/ PageFails
    \/ RedirectDiscard
    \/ PageOk
    \/ Resume
    \/ Finish
    \/ Return

Spec == Init /\ [][Next]_vars

\* The consumer keeps asking for batches and every step of the loop returns.
FairSpec == Spec /\ WF_vars(Next)

\* ------------------------------------------------------ the crawl's claims

\* C1: no two Documents in the concatenation of all batches emitted by
\* load_from_state have the same id.
C1_UniqueIds == NoDuplicates(Ids(Flatten(emitted)))

\* A finished crawl with a failure, two batches, and a Document whose id is
\* a redirect target (it was never requested).
C1_Witness ==
    /\ pc = "done"
    /\ fail_log # <<>>
    /\ Len(emitted) >= 2
    /\ \E d \in Range(Flatten(emitted)) : d.id \notin Range(dispatch_log)

\* C2: with batch size B and N Documents assembled, exactly ceil(N/B)
\* batches are emitted, each of B Documents except possibly the last, and
\* none of more than B.
C2_BatchSizes ==
    /\ \A i \in 1..Len(emitted) : Len(emitted[i]) <= batch_size
    /\ \A i \in 1..(Len(emitted) - 1) : Len(emitted[i]) = batch_size
    /\ pc = "done" =>
         Len(emitted) = (Len(assembled) + batch_size - 1) \div batch_size

\* C3: after a fetch raises the loop goes on: an unvisited URL popped from
\* the frontier is dispatched, the frontier is emptied, and every page load
\* runs on a session constructed after the latest failure.
C3_FailureIsolation ==
    /\ [](last_load.born_fails = last_load.fails)
    /\ [][(/\ pc = "loop"
           /\ to_visit # <<>>
           /\ fail_log # <<>>
           /\ current_url \notin visited_links)
             => dispatch_log' = Append(dispatch_log, current_url)]_vars
    /\ (fail_log # <<>>) ~> (to_visit = <<>> /\ pc = "done")

\* A page was loaded, on a second session, after a failure, with URLs still
\* in the frontier at the failure, and the crawl finished.
C3_Witness ==
    /\ pc = "done"
    /\ last_load.fails >= 1
    /\ last_load.session >= 2
    /\ Len(dispatch_log) >= 2
    /\ fail_log[1] = dispatch_log[1]

\* C4: once constructed, with a consumer that keeps asking, the crawl
\* reaches its terminal state without raising, in every mode.
C4_CrawlCompletes == [](pc # "raised") /\ <>(pc = "done")

\* What holds instead: a crawl that starts from a non-empty frontier ends.
C4_SeededCrawlCompletes == (pc = "loop") ~> (pc = "done")

\* Documents that are buffered and not yet handed out.
Pending == IF pc \in {"yielded", "final_yield", "done"} THEN <<>> ELSE doc_batch

\* C5: every Document appended to the buffer is in exactly one emitted batch
\* when the crawl ends, the partial buffer being the last batch.
C5_EmittedOnce ==
    /\ Flatten(emitted) \o Pending = assembled
    /\ pc = "done" => Flatten(emitted) = assembled
    /\ \A i \in 1..Len(emitted) : emitted[i] # <<>>

\* A finished crawl whose last batch is a partial one.
C5_Witness ==
    /\ pc = "done"
    /\ Len(emitted) >= 2
    /\ Len(Last(emitted)) < batch_size

Count(s, x) == Cardinality({i \in 1..Len(s) : s[i] = x})

\* C6: no URL is dispatched twice; a URL is in the visited set from the
\* moment it is popped; a visited URL (a failed one too) is never pushed
\* again; the visited set never loses an element.
C6_DispatchedOnce ==
    /\ [](NoDuplicates(dispatch_log) /\ Range(dispatch_log) \subseteq visited_links)
    /\ [][visited_links \subseteq visited_links']_vars
    /\ [][\A u \in visited_links \cup Range(fail_log) :
              Count(to_visit', u) <= Count(to_visit, u)]_vars

\* A failed URL is still in the frontier (a second copy) after three dispatches.
C6_Witness ==
    /\ Len(dispatch_log) >= 3
    /\ \E u \in Range(fail_log) : u \in Range(to_visit)

\* The frontier entry pushed last among those not visited.
NewestUnvisited ==
    LET cand == {i \in 1..Len(to_visit) : to_visit[i] \notin visited_links}
    IN  CHOOSE i \in cand : \A j \in cand : stamps[j] <= stamps[i]

\* C7: the URL dispatched is the most recently pushed frontier entry that is
\* not visited; a sitemap [A, B] has B dispatched first.
C7_Lifo ==
    /\ [][dispatch_log' # dispatch_log
            => Last(dispatch_log') = to_visit[NewestUnvisited]]_vars
    /\ [][(/\ web_connector_type = "sitemap"
           /\ pc = "loop"
           /\ dispatch_log = <<>>
           /\ Len(to_visit) = 2)
            => dispatch_log' = <<to_visit[2]>>]_vars

\* A recursive crawl in which a discovered link was dispatched while the
\* frontier still holds an older unvisited entry.
C7_Witness ==
    /\ recursive
    /\ Len(dispatch_log) >= 3
    /\ \E i \in 1..Len(to_visit) :
         /\ to_visit[i] \notin visited_links
         /\ stamps[i] < clock

\* C8: in recursive mode every URL pushed after seeding has the network
\* location of the (post-redirect) page it was found on and contains the
\* normalized seed URL.
C8_ScopeContainment ==
    /\ [](recursive =>
            \A i \in 1..Len(to_visit) :
                stamps[i] > 1 => Contains(to_visit[i], base_url))
    /\ [][(recursive /\ pc = "loop" /\ to_visit # <<>>) =>
            \A i \in Len(to_visit)..Len(to_visit') :
                /\ Netloc(to_visit'[i]) = Netloc(Last(assembled').id)
                /\ Contains(to_visit'[i], base_url)]_vars

\* A link was pushed from a page that a redirect had moved to another host.
C8_Witness ==
    /\ recursive
    /\ \E i \in 1..Len(to_visit) : stamps[i] > 1 /\ Netloc(to_visit[i]) = "x"

\* C9: a dispatched PDF URL whose bytes cannot be decrypted or read as a PDF
\* gets a Document with text "" and id = source = the URL; the failure path
\* is not taken.
C9_PdfSoftFailure ==
    (last_pdf.outcome \in {"document", "dropped"} /\ last_pdf.file # PlainPdf) =>
        /\ last_pdf.outcome = "document"
        /\ Document(last_pdf.url, "", last_pdf.url, "{}") \in Range(assembled)
        /\ last_pdf.url \notin Range(fail_log)

\* ------------------------------------------------------------- page text

\* str.isspace() of a character.
IsSpace(c) == c \in {" ", "\t", "\n", "\r"}

IsNewline(c) == c \in {"\n", "\r"}

\* Length of the run of spaces (of newline characters) s starts with.
RECURSIVE LeadingSpaces(_)
LeadingSpaces(s) ==
    IF s # <<>> /\ Head(s) = " " THEN 1 + LeadingSpaces(Tail(s)) ELSE 0

RECURSIVE LeadingNewlines(_)
LeadingNewlines(s) ==
    IF s # <<>> /\ IsNewline(Head(s)) THEN 1 + LeadingNewlines(Tail(s)) ELSE 0

Drop(s, n) == SubSeq(s, n + 1, Len(s))

\* re.sub(r" +", " ", s)
RECURSIVE CollapseSpaces(_)
CollapseSpaces(s) ==
    IF s = <<>> THEN <<>>
    ELSE IF Head(s) = " " THEN <<" ">> \o CollapseSpaces(Drop(s, LeadingSpaces(s)))
    ELSE <<Head(s)>> \o CollapseSpaces(Tail(s))

\* re.sub(r" +[\n\r]", "\n", s)
RECURSIVE StripTrailingSpaces(_)
StripTrailingSpaces(s) ==
    IF s = <<>> THEN <<>>
    ELSE IF Head(s) = " "
         THEN LET k == LeadingSpaces(s)
              IN  IF k < Len(s) /\ IsNewline(s[k + 1])
                  THEN <<"\n">> \o StripTrailingSpaces(Drop(s, k + 1))
                  ELSE SubSeq(s, 1, k) \o StripTrailingSpaces(Drop(s, k))
    ELSE <<Head(s)>> \o StripTrailingSpaces(Tail(s))

\* re.sub(r"[\n\r]+", with, s)
RECURSIVE ReplaceNewlineRuns(_, _)
ReplaceNewlineRuns(s, with) ==
    IF s = <<>> THEN <<>>
    ELSE IF IsNewline(Head(s))
         THEN <<with>> \o ReplaceNewlineRuns(Drop(s, LeadingNewlines(s)), with)
    ELSE <<Head(s)>> \o ReplaceNewlineRuns(Tail(s), with)

\* s.replace("\n", " ")
ReplaceNewlines(s) == [i \in 1..Len(s) |-> IF s[i] = "\n" THEN " " ELSE s[i]]

RECURSIVE LStrip(_)
LStrip(s) == IF s # <<>> /\ IsSpace(Head(s)) THEN LStrip(Tail(s)) ELSE s

RECURSIVE RStrip(_)
RStrip(s) == IF s # <<>> /\ IsSpace(Last(s)) THEN RStrip(Front(s)) ELSE s

\* str.strip()
Strip(s) == RStrip(LStrip(s))

strip_excessive_newlines_and_spaces(doc) ==
    Strip(ReplaceNewlineRuns(StripTrailingSpaces(CollapseSpaces(doc)), "\n"))

strip_newlines(doc) == ReplaceNewlineRuns(doc, " ")

\* ------------------------------------------------------------------- DOM

\* A tree is the sequence of its nodes in pre-order (what .descendants
\* yields); a node records its kind, tag name, text, number of children
\* (len(list(e.childGenerator()))) and number of descendants.
TextNode(chars) ==
    <<[kind |-> "text", name |-> "", text |-> chars, children |-> 0, size |-> 0]>>

CommentNode(chars) ==
    <<[kind |-> "comment", name |-> "", text |-> chars, children |-> 0, size |-> 0]>>

Tag(name, kids) ==
    <<[kind |-> "tag", name |-> name, text |-> <<>>,
       children |-> Len(kids), size |-> Len(Flatten(kids))]>> \o Flatten(kids)

\* Cell texts.
Words == {<<"A">>, <<"C", "D">>}

\* Tables of r rows by c cells: cells[i][j] is the text of cell j of row i.
TableCells ==
    UNION {[1..r -> [1..c -> Words]] : r \in 1..MaxRows, c \in 1..MaxCols}

\* <table><tr><td>..</td>..</tr>..</table>
TableDoc(cells) ==
    Tag("table",
        [i \in 1..Len(cells) |->
            Tag("tr", [j \in 1..Len(cells[i]) |->
                          Tag("td", <<TextNode(cells[i][j])>>)])])

\* How the text of a list item is wrapped: not at all, or in a <p> or <div>.
Wraps == {"none", "p", "div"}

\* Lists of n items: items[i] = <<text, wrap>>.
ListItems == UNION {[1..n -> Words \X Wraps] : n \in 1..MaxItems}

\* <ul><li>..</li>..</ul>
ListDoc(items) ==
    Tag("ul",
        [i \in 1..Len(items) |->
            Tag("li", <<IF items[i][2] = "none"
                        THEN TextNode(items[i][1])
                        ELSE Tag(items[i][2], <<TextNode(items[i][1])>>)>>)])

TableDocs == {TableDoc(cells) : cells \in TableCells}

ListDocs == {ListDoc(items) : items \in ListItems}

\* Tags that follow a table, each holding one text.
FollowTags == {"p", "h1", "li"}

\* <table><tr><td>w</td></tr></table><t>v</t>
AfterTableDocs ==
    {TableDoc(<<<<w>>>>) \o Tag(t, <<TextNode(v)>>) :
        w \in Words, t \in FollowTags, v \in Words}

\* Texts of more than one line.
Lines == {<<"A", "\n", "B">>, <<"C", "\n", "\n", "D">>}

\* <pre>l</pre>, <pre><code>l</code></pre>, <pre>l<b>m</b>l</pre> and
\* <pre>l</pre><p>m</p>
PreDocs ==
    UNION {{Tag("pre", <<TextNode(l)>>),
            Tag("pre", <<Tag("code", <<TextNode(l)>>)>>),
            Tag("pre", <<TextNode(l), Tag("b", <<TextNode(m)>>), TextNode(l)>>),
            Tag("pre", <<TextNode(l)>>) \o Tag("p", <<TextNode(m)>>)} :
           l \in Lines, m \in Lines}

FmtDocs == TableDocs \cup ListDocs \cup AfterTableDocs \cup PreDocs

\* ---------------------------------------------------- format_document_soup

table_cell_separator == "\t"

\* Lines 171-172 without the list_element_start test.
ParagraphBreakAlways == <<"\n">>

\* Lines 171-172: what a <p> or <div> adds to text.
ParagraphBreak == IF ~list_element_start THEN <<"\n">> ELSE <<>>

e == document[pos]

\* Lines 125-129: e.text, whitespace-trimmed inside a table.
CellText == IF in_table THEN Strip(ReplaceNewlines(e.text)) ELSE e.text

\* Line 134: a leading space right after a forced newline.
LeadingSpaceAfterNewline ==
    last_added_newline /\ CellText # <<>> /\ Head(CellText) = " "

\* Lines 125-136: element_text as it is about to be added.
ElementText == IF LeadingSpaceAfterNewline THEN Tail(CellText) ELSE CellText

\* Lines 122-153: a NavigableString.
VisitString ==
    /\ fpc = "walk"
    /\ pos <= Len(document)
    /\ e.kind \in {"text", "comment"}
    /\ verbatim_output' = verbatim_output - 1
    /\ pos' = pos + 1
    /\ IF e.kind = "comment"
       THEN UNCHANGED <<text, list_element_start, last_added_newline, raw_nodes>>
       ELSE LET content_to_add == IF verbatim_output - 1 > 0 THEN ElementText
                                  ELSE strip_newlines(ElementText)
                glue == /\ text # <<>>
                        /\ ~IsSpace(Last(text))
                        /\ content_to_add # <<>>
                        /\ ~IsSpace(Head(content_to_add))
            IN  /\ last_added_newline' =
                     IF LeadingSpaceAfterNewline THEN FALSE ELSE last_added_newline
                /\ IF ElementText # <<>>
                   THEN /\ text' = text \o (IF glue THEN <<" ">> ELSE <<>>)
                                        \o content_to_add
                        /\ list_element_start' = FALSE
                        /\ raw_nodes' = IF verbatim_output - 1 > 0
                                        THEN raw_nodes \cup {pos}
                                        ELSE raw_nodes
                   ELSE UNCHANGED <<text, list_element_start, raw_nodes>>
    /\ UNCHANGED <<document, in_table, fpc, result, crawl_vars, meta_vars>>

\* Lines 154-186: a Tag.
VisitTag ==
    /\ fpc = "walk"
    /\ pos <= Len(document)
    /\ e.kind = "tag"
    /\ pos' = pos + 1
    /\ LET v == verbatim_output - 1
       IN
       IF e.name = "table"
       THEN /\ in_table' = TRUE
            /\ verbatim_output' = v
            /\ UNCHANGED <<text, list_element_start, last_added_newline>>
       ELSE IF e.name = "tr" /\ in_table
       THEN /\ text' = text \o <<"\n">>
            /\ verbatim_output' = v
            /\ UNCHANGED <<in_table, list_element_start, last_added_newline>>
       ELSE IF e.name \in {"td", "th"} /\ in_table
       THEN /\ text' = text \o <<table_cell_separator>>
            /\ verbatim_output' = v
            /\ UNCHANGED <<in_table, list_element_start, last_added_newline>>
       ELSE IF e.name = "/table"
       THEN /\ in_table' = FALSE
            /\ verbatim_output' = v
            /\ UNCHANGED <<text, list_element_start, last_added_newline>>
       ELSE IF in_table
       THEN /\ verbatim_output' = v
            /\ UNCHANGED <<text, in_table, list_element_start, last_added_newline>>
       ELSE IF e.name \in {"p", "div"}
       THEN /\ text' = text \o ParagraphBreak
            /\ verbatim_output' = v
            /\ UNCHANGED <<in_table, list_element_start, last_added_newline>>
       ELSE IF e.name \in {"h1", "h2", "h3", "h4"} \/ e.name = "br"
       THEN /\ text' = text \o <<"\n">>
            /\ list_element_start' = FALSE
            /\ last_added_newline' = TRUE
            /\ verbatim_output' = v
            /\ UNCHANGED in_table
       ELSE IF e.name = "li"
       THEN /\ text' = text \o <<"\n", "-", " ">>
            /\ list_element_start' = TRUE
            /\ verbatim_output' = v
            /\ UNCHANGED <<in_table, last_added_newline>>
       ELSE IF e.name = "pre"
       THEN /\ verbatim_output' = IF v <= 0 THEN e.children ELSE v
            /\ UNCHANGED <<text, in_table, list_element_start, last_added_newline>>
       ELSE /\ verbatim_output' = v
            /\ UNCHANGED <<text, in_table, list_element_start, last_added_newline>>
    /\ UNCHANGED <<document, fpc, result, raw_nodes, crawl_vars, meta_vars>>

\* Line 187.
FmtReturn ==
    /\ fpc = "walk"
    /\ pos > Len(document)
    /\ result' = strip_excessive_newlines_and_spaces(text)
    /\ fpc' = "done"
    /\ UNCHANGED <<document, pos, text, list_element_start, verbatim_output,
                   in_table, last_added_newline, raw_nodes, crawl_vars, meta_vars>>

\* No crawl is running while a document is formatted.
CrawlIdle ==
    /\ web_connector_type = "single"
    /\ recursive = FALSE
    /\ batch_size = 1
    /\ to_visit = <<>>
    /\ seeded = {}
    /\ stamps = <<>>
    /\ clock = 0
    /\ base_url = <<>>
    /\ visited_links = {}
    /\ doc_batch = <<>>
    /\ restart_playwright = FALSE
    /\ pc = "idle"
    /\ started = 0
    /\ stop_log = <<>>
    /\ emitted = <<>>
    /\ assembled = <<>>
    /\ dispatch_log = <<>>
    /\ fail_log = <<>>
    /\ born_fails = 0
    /\ last_load = NoLoad
    /\ last_pdf = NoPdf
    /\ last_discard = <<>>
    /\ last_page = NoPage
    /\ born_emitted = 0

\* Lines 115-119: format_document_soup is entered with a document.
FmtInit ==
    /\ document \in FmtDocs
    /\ pos = 1
    /\ text = <<>>
    /\ list_element_start = FALSE
    /\ verbatim_output = 0
    /\ in_table = FALSE
    /\ last_added_newline = FALSE
    /\ fpc = "walk"
    /\ result = <<>>
    /\ raw_nodes = {}
    /\ CrawlIdle
    /\ MetaIdle

FmtNext == VisitString \/ VisitTag \/ FmtReturn

FmtSpec == FmtInit /\ [][FmtNext]_vars

\* -------------------------------------------------- the normalizer's claims

RECURSIVE Join(_, _)
Join(parts, sep) ==
    IF parts = <<>> THEN <<>>
    ELSE IF Len(parts) = 1 THEN parts[1]
    ELSE parts[1] \o <<sep>> \o Join(Tail(parts), sep)

\* Rows joined by single newlines, the cells of a row by single tabs.
TableText(cells) == Join([i \in 1..Len(cells) |-> Join(cells[i], "\t")], "\n")

\* C10: a table of r rows by c cells of plain text normalizes to its rows
\* joined by single newlines, each row its cells joined by single tabs.
C10_TableFormatting ==
    (fpc = "done" /\ document[1].name = "table") =>
        \A cells \in TableCells :
            document = TableDoc(cells) => result = TableText(cells)

\* What the code yields instead: every row after the first starts with a tab.
TableTextAsCoded(cells) ==
    Join([i \in 1..Len(cells) |->
            (IF i = 1 THEN <<>> ELSE <<"\t">>) \o Join(cells[i], "\t")], "\n")

C10_TableAsCoded ==
    (fpc = "done" /\ document[1].name = "table") =>
        \A cells \in TableCells :
            document = TableDoc(cells) => result = TableTextAsCoded(cells)


\* One line per item: "- " and the item's text.
ListText(items) ==
    Join([i \in 1..Len(items) |-> <<"-", " ">> \o items[i][1]], "\n")

\* C11: a list of n items of plain text normalizes to one line "- text" per
\* item, joined by single newlines, also when an item's text is wrapped in a
\* <p> or <div> directly after the <li>.
C11_ListFormatting ==
    (fpc = "done" /\ document[1].name = "ul") =>
        \A items \in ListItems :
            document = ListDoc(items) => result = ListText(items)

\* A two-item list with a wrapped item has been normalized.
C11_Witness ==
    /\ fpc = "done"
    /\ document[1].name = "ul"
    /\ document[1].children = 2
    /\ \E i \in 1..Len(document) : document[i].name \in {"p", "div"}
    /\ result # <<>>


\* ------------------------------------------------ WebConnector.parse_metadata

\* Metadata values: a str, a list (of str and other elements), another type.
StrValue(v) == [type |-> "str", val |-> v]
IntValue(v) == [type |-> "int", val |-> v]
ListValue(elems) == [type |-> "list", val |-> elems]

MetaValues ==
    {StrValue("v"), IntValue("7"),
     ListValue(<<>>),
     ListValue(<<StrValue("a")>>),
     ListValue(<<StrValue("a"), StrValue("b")>>),
     ListValue(<<StrValue("a"), IntValue("7")>>)}

MetaKeys == {"k1", "k2", "k3"}

\* dict.items(): entries with distinct keys, in insertion order.
MetaInputs ==
    {m \in UNION {[1..n -> MetaKeys \X MetaValues] : n \in 0..MaxEntries} :
        \A i, j \in 1..Len(m) : m[i][1] = m[j][1] => i = j}

metadata_key == metadata[mpos][1]

metadata_value == metadata[mpos][2]

\* Line 358 with the test of the elements left out.
AllStringsUnchecked(elems) == TRUE

\* all([isinstance(val, str) for val in metadata_value])
AllStrings(elems) == \A i \in 1..Len(elems) : elems[i].type = "str"

\* f"{key}: {value}"
FormatLine(key, value) == <<key, ": ">> \o value

\* ", ".join(values)
CommaJoin(elems) == Join([i \in 1..Len(elems) |-> <<elems[i].val>>], ", ")

\* Lines 355-356: a str value.
MetaString ==
    /\ mpc = "loop"
    /\ mpos <= Len(metadata)
    /\ metadata_value.type = "str"
    /\ metadata_lines' =
         Append(metadata_lines, FormatLine(metadata_key, <<metadata_value.val>>))
    /\ mpos' = mpos + 1
    /\ UNCHANGED <<metadata, mpc, meta_result, crawl_vars, fmt_vars>>

\* Lines 357-360: a list value whose elements are all str.
MetaList ==
    /\ mpc = "loop"
    /\ mpos <= Len(metadata)
    /\ metadata_value.type = "list"
    /\ AllStrings(metadata_value.val)
    /\ metadata_lines' =
         Append(metadata_lines, FormatLine(metadata_key, CommaJoin(metadata_value.val)))
    /\ mpos' = mpos + 1
    /\ UNCHANGED <<metadata, mpc, meta_result, crawl_vars, fmt_vars>>

\* Lines 358-359, 361-362: RuntimeError.
MetaRaise ==
    /\ mpc = "loop"
    /\ mpos <= Len(metadata)
    /\ \/ metadata_value.type \notin {"str", "list"}
       \/ metadata_value.type = "list" /\ ~AllStrings(metadata_value.val)
    /\ mpc' = "raised"
    /\ UNCHANGED <<metadata, mpos, metadata_lines, meta_result, crawl_vars, fmt_vars>>

\* Line 363.
MetaReturn ==
    /\ mpc = "loop"
    /\ mpos > Len(metadata)
    /\ meta_result' = metadata_lines
    /\ mpc' = "returned"
    /\ UNCHANGED <<metadata, mpos, metadata_lines, crawl_vars, fmt_vars>>

\* Lines 350-353: parse_metadata is entered with a mapping.
MetaInit ==
    /\ metadata \in MetaInputs
    /\ mpos = 1
    /\ metadata_lines = <<>>
    /\ mpc = "loop"
    /\ meta_result = NoResult
    /\ CrawlIdle
    /\ FmtIdle

MetaNext == MetaString \/ MetaList \/ MetaRaise \/ MetaReturn

MetaSpec == MetaInit /\ [][MetaNext]_vars

\* --------------------------------------------------- parse_metadata's claims

\* A str, or a list of str only.
Supported(value) ==
    \/ value.type = "str"
    \/ value.type = "list" /\ \A i \in 1..Len(value.val) : value.val[i].type = "str"

RECURSIVE CommaSeparated(_)
CommaSeparated(elems) ==
    IF elems = <<>> THEN <<>>
    ELSE IF Len(elems) = 1 THEN <<elems[1].val>>
    ELSE <<elems[1].val, ", ">> \o CommaSeparated(Tail(elems))

\* "key: value" or "key: v1, v2, ...".
MetaLineOf(entry) ==
    <<entry[1], ": ">> \o (IF entry[2].type = "str" THEN <<entry[2].val>>
                           ELSE CommaSeparated(entry[2].val))

\* C12: parse_metadata returns one line per entry, in entry order, "key:
\* value" for a str and "key: v1, v2, ..." for a list of str; with an entry
\* of any other shape the call fails and returns no lines.
C12_ParseMetadata ==
    /\ mpc = "returned" =>
         /\ \A i \in 1..Len(metadata) : Supported(metadata[i][2])
         /\ meta_result = [i \in 1..Len(metadata) |-> MetaLineOf(metadata[i])]
    /\ mpc = "raised" =>
         /\ \E i \in 1..Len(metadata) : ~Supported(metadata[i][2])
         /\ meta_result = NoResult
    /\ (mpc = "loop" /\ mpos > 1) =>
         \A i \in 1..(mpos - 1) : Supported(metadata[i][2])

\* A str entry and a two-element list entry were formatted and returned.
C12_Witness ==
    /\ mpc = "returned"
    /\ Len(meta_result) = 2
    /\ \E i \in 1..2 : metadata[i][2].type = "str"
    /\ \E i \in 1..2 : metadata[i][2].type = "list" /\ Len(metadata[i][2].val) = 2

\* A call failed on its second entry, after a line had been formatted.
C12_WitnessRaise ==
    /\ mpc = "raised"
    /\ mpos = 2
    /\ metadata_lines # <<>>


\* ---------------------------------------------------------------------------
\* Empty frontier (lines 286-305, 370-380)
\* ---------------------------------------------------------------------------

\* C13: a crawl whose frontier was seeded empty (nothing was ever dispatched
\* and nothing is left to visit) never raises and never emits a batch.
C13_EmptyFrontier ==
    (to_visit = <<>> /\ dispatch_log = <<>>) =>
        (pc # "raised" /\ emitted = <<>>)


\* ---------------------------------------------------------------------------
\* Redirect to a visited URL (lines 410-419, 447-451)
\* ---------------------------------------------------------------------------

\* C14: a page is discarded after a redirect only if a Document whose id is
\* the final URL has been assembled already.
C14_DiscardedIsCaptured ==
    last_discard # <<>> =>
        \E i \in 1..Len(assembled) : assembled[i].id = last_discard


\* ---------------------------------------------------------------------------
\* Render session lifetime (lines 378-391, 447-457)
\* ---------------------------------------------------------------------------

\* C15: every page load runs on a session that has not been stopped and that
\* was constructed after the latest fetch failure and after the latest batch
\* emission.
C15_FreshLiveSession ==
    last_load # NoLoad =>
        /\ last_load.live
        /\ last_load.born_fails = last_load.fails
        /\ last_load.born_batches = last_load.batches

\* A page was loaded on a third session, after a failure and after a yielded
\* batch.
C15_Witness ==
    /\ last_load.session >= 3
    /\ last_load.fails >= 1
    /\ last_load.batches >= 1
    /\ Len(stop_log) >= 2


\* ---------------------------------------------------------------------------
\* Table mode (lines 120-130, 154-186)
\* ---------------------------------------------------------------------------

\* Node i lies inside the subtree of a <table>.
InsideTable(i) ==
    \E j \in 1..(i - 1) :
        document[j].name = "table" /\ i <= j + document[j].size

\* C16: when the walk is about to visit a node, in_table is set exactly if
\* that node lies inside a <table> subtree.
C16_TableMode ==
    (fpc = "walk" /\ pos <= Len(document)) => (in_table <=> InsideTable(pos))


\* ---------------------------------------------------------------------------
\* Verbatim mode (lines 117-143, 184-186)
\* ---------------------------------------------------------------------------

\* Node i lies inside the subtree of a <pre>.
InsidePre(i) ==
    \E j \in 1..(i - 1) :
        document[j].name = "pre" /\ i <= j + document[j].size

\* The text nodes the walk has added to the output so far.
AddedTexts == {i \in 1..(pos - 1) : document[i].kind = "text" /\ document[i].text # <<>>}

\* C17: a text node is added without its newlines collapsed exactly if it is
\* a descendant of a <pre>.
C17_PreVerbatim ==
    fpc # "idle" => \A i \in AddedTexts : i \in raw_nodes <=> InsidePre(i)

\* What holds of the code: no text outside a <pre> is added verbatim.
C17_NoVerbatimOutsidePre ==
    fpc # "idle" => \A i \in raw_nodes : InsidePre(i)


\* ---------------------------------------------------------------------------
\* Link discovery by mode (lines 324-345, 393-428)
\* ---------------------------------------------------------------------------

\* The loop is about to dispatch a PDF URL.
PdfNext ==
    /\ pc = "loop"
    /\ to_visit # <<>>
    /\ current_url \notin visited_links
    /\ IsPdf(current_url)

\* C18: outside recursive mode every dispatched URL is a seeded one and the
\* frontier never grows; in every mode the dispatch of a PDF URL only pops.
C18_NoLinkDiscovery ==
    /\ [](~recursive => Range(dispatch_log) \subseteq seeded)
    /\ [][~recursive => Len(to_visit') <= Len(to_visit)]_vars
    /\ [][PdfNext => to_visit' = RemoveAt(to_visit, PopAt(to_visit))]_vars

\* A crawl outside recursive mode has finished with the Documents of an HTML
\* page and of a PDF.
C18_Witness ==
    /\ ~recursive
    /\ pc = "done"
    /\ \E i, j \in 1..Len(assembled) :
         IsPdf(assembled[i].id) /\ ~IsPdf(assembled[j].id)


\* ---------------------------------------------------------------------------
\* Order of link extraction and cleanup (lines 421-444, 205-228)
\* ---------------------------------------------------------------------------

\* The URLs pushed onto the frontier by the step.
Pushed == {to_visit'[i] : i \in {k \in 1..Len(to_visit') : stamps'[k] > clock}}

\* An HTML page is assembled by the step, in recursive mode.
PageStep == recursive /\ last_page'.n # last_page.n

C20_NoSessionLeft ==
    pc = "done" => \A s \in 1..started : s \in Range(stop_log)


\* ---------------------------------------------------------------------------
\* Stop sites (lines 447-461)
\* ---------------------------------------------------------------------------

\* C21: no session is stopped twice.
C21_StoppedOnce == NoDuplicates(stop_log)


\* ---------------------------------------------------------------------------
\* The seeded frontier after a crawl (lines 328-340, 373-381, 424-428)
\* ---------------------------------------------------------------------------

\* C22: when load_from_state has ended, self.to_visit_list holds the URLs
\* that __init__ seeded it with.
C22_SeedFrontierKept == pc = "done" => Range(to_visit) = seeded

====
